---- MODULE Spec2Model ----
(***************************************************************************)
(* Model of the Okey hand solver: the /solve request handler (api.py) and  *)
(* the tile model, meld enumerator and set-packing solve of                *)
(* OkeyILPSolver (okey_ilp.py).                                            *)
(*                                                                         *)
(* Hand indices are 1-based here (Python's index i is i + 1); every order  *)
(* between indices is preserved by the shift.                              *)
(***************************************************************************)
EXTENDS Integers, Sequences, FiniteSets, TLC

VARIABLES
    pc,                 \* position of the request: "request", "constructed",
                        \* "enumerated", "solved", "done"
    pieces,             \* request.pieces: sequence of [color, number]
    okey_color,         \* request.okey_color (NoneStr when the field is missing)
    okey_number,        \* request.okey_number (NoneNum when the field is missing)
    tiles,              \* solver.tiles: sequence of Piece records
    joker_indices,      \* solver.joker_indices
    non_joker_indices,  \* solver.non_joker_indices
    melds,              \* the candidate list of _enumerate_melds
    cbc_status,         \* how the optimizer invocation of solve ended
    solution,           \* the list returned by solve
    response            \* what the request ended in

vars == <<pc, pieces, okey_color, okey_number, tiles, joker_indices,
          non_joker_indices, melds, cbc_status, solution, response>>

-----------------------------------------------------------------------------
(* Bounds of the checked input space *)

\* longest hand of the wide input space (all tile kinds)
MaxHand == 3
\* longest hand of the narrow input space (one color, few ranks, jokers)
MaxLong == 6
\* most joker tiles in a hand (the game has two)
MaxJokers == 2

-----------------------------------------------------------------------------
(* Program constants and encodings *)

\* Python None in an Optional[int] field
NoneNum == -1
\* Python None / missing value in a str field
NoneStr == "None"
\* ranks are 1..13: range(1, 14), % 13
NumRanks == 13
\* smallest meld: range(3, ...)
MinMeld == 3
\* largest set: min(4, ...)
MaxSetSize == 4
\* can_open threshold
OpenScore == 101

\* the four suits of the game, the colors a valid request uses
Colors == {"red", "blue", "black", "yellow"}

-----------------------------------------------------------------------------
(* Generic helpers standing for Python built-ins *)

Range(s) == {s[i] : i \in 1..Len(s)}

Min2(a, b) == IF a < b THEN a ELSE b
Max2(a, b) == IF a > b THEN a ELSE b

\* max(S) of a non-empty set of integers
SetMax(S) == CHOOSE m \in S : \A k \in S : k <= m

\* sum(list)
RECURSIVE SumSeq(_)
SumSeq(s) == IF s = <<>> THEN 0 ELSE Head(s) + SumSeq(Tail(s))

\* list(range(lo, hi + 1))
RangeSeq(lo, hi) == [k \in 1..Max2(0, hi - lo + 1) |-> lo + k - 1]

\* [x for x in s if x in keep]
FilterSeq(s, keep) == SelectSeq(s, LAMBDA e: e \in keep)

\* sorted(list of ints)
Sorted(s) == SortSeq(s, LAMBDA a, b: a < b)

\* the list a loop of n iterations builds when its k-th iteration appends the
\* elements of parts[k]
RECURSIVE Flatten(_, _)
Flatten(parts, n) ==
    IF n <= 0 THEN <<>> ELSE Flatten(parts, n - 1) \o parts[n]

\* list(itertools.combinations(s, k)): the k-element subsequences of s, in
\* lexicographic order of positions
RECURSIVE Combinations(_, _)
Combinations(s, k) ==
    IF k = 0 THEN << <<>> >>
    ELSE IF Len(s) < k THEN <<>>
    ELSE LET withHead == Combinations(Tail(s), k - 1)
             without  == Combinations(Tail(s), k)
         IN  [j \in 1..Len(withHead) |-> <<Head(s)>> \o withHead[j]] \o without

\* the elements of a set, listed once each
RECURSIVE SetToSeq(_)
SetToSeq(S) ==
    IF S = {} THEN <<>>
    ELSE LET e == CHOOSE c \in S : TRUE IN <<e>> \o SetToSeq(S \ {e})

\* all orders in which a set can be iterated
IterationOrders(S) ==
    {p \in [1..Cardinality(S) -> S] : \A i, j \in 1..Cardinality(S) : p[i] = p[j] => i = j}

-----------------------------------------------------------------------------
(* TileModel: Piece.__init__ and OkeyILPSolver.__init__ *)

\* a faulty variant: the rank after the indicator's, without the wrap from 13 to 1
FakeRankNoWrap(n) == n + 1

\* rank of a fake joker for indicator rank n
FakeRank(n) == (n % NumRanks) + 1

PieceInit(color, number, oc, on) ==
    LET type == IF color = "okey" THEN "okey"
                ELSE IF color = "fake_okey" THEN "fake_okey"
                ELSE "piece"
    IN  IF type = "okey"
        THEN [type |-> type, color |-> oc, number |-> on]
        ELSE IF type = "fake_okey"
        THEN [type |-> type, color |-> oc,
              number |-> IF on # NoneNum THEN FakeRank(on) ELSE NoneNum]
        ELSE [type |-> type, color |-> color, number |-> number]

\* self.tiles after the constructor's loop
BuildTiles(ps, oc, on) ==
    [i \in 1..Len(ps) |-> PieceInit(ps[i].color, ps[i].number, oc, on)]

\* [i for i, t in enumerate(ts) if t.type == 'okey']
JokerIndices(ts) == SelectSeq(RangeSeq(1, Len(ts)), LAMBDA i: ts[i].type = "okey")

\* [i for i, t in enumerate(ts) if t.type != 'okey']
NonJokerIndices(ts) == SelectSeq(RangeSeq(1, Len(ts)), LAMBDA i: ts[i].type # "okey")

-----------------------------------------------------------------------------
(* MeldEnumerator: OkeyILPSolver._enumerate_melds *)

\* A candidate is the tuple (idxs, weight) that the code appends. The fields
\* kind, base and size record the loop variables at the append: the pass, the
\* rank num (set) or the window start (run), and size (set) or length (run).

\* a faulty variant: only the real tiles of a set are scored
SetWeightRealOnly(num, size, r) == num * r

\* weight = num * size (r, the number of real tiles, is not read)
SetWeight(num, size, r) == num * size

\* weight = sum(run_nums)
RunWeight(run_nums) == SumSeq(run_nums)

\* idxs = list(real_comb) + list(joker_comb)
SetIdxs(real_comb, joker_comb) == real_comb \o joker_comb

\* idxs = sorted(real_idxs + list(joker_comb))
RunIdxs(real_idxs, joker_comb) == Sorted(real_idxs \o joker_comb)

\* the two innermost loops of the set pass: every real_comb with every joker_comb
SetProduct(num, size, r, real_idxs, jokers) ==
    LET reals == Combinations(real_idxs, r)
        jcs   == Combinations(jokers, size - r)
    IN  Flatten([a \in 1..Len(reals) |->
                    [b \in 1..Len(jcs) |->
                        [idxs   |-> SetIdxs(reals[a], jcs[b]),
                         weight |-> SetWeight(num, size, r),
                         kind   |-> "set", base |-> num, size |-> size]]],
                Len(reals))

\* a faulty variant: the rank filter of the set pass is lost
SetRealIdxsAnyRank(ts, nonjokers, num) == nonjokers

\* real_idxs of the set pass for rank num
SetRealIdxs(ts, nonjokers, num) == SelectSeq(nonjokers, LAMBDA i: ts[i].number = num)

\* the set pass for one rank
SetsOfRank(ts, jokers, nonjokers, num) ==
    LET W         == Len(jokers)
        real_idxs == SetRealIdxs(ts, nonjokers, num)
        max_size  == Min2(MaxSetSize, Len(real_idxs) + W)
        r_first   == [size \in MinMeld..max_size |-> Max2(1, size - W)]
        r_last    == [size \in MinMeld..max_size |-> Min2(size, Len(real_idxs))]
    IN  Flatten([s \in 1..(max_size - MinMeld + 1) |->
                    LET size == MinMeld + s - 1
                    IN  Flatten([k \in 1..(r_last[size] - r_first[size] + 1) |->
                                    SetProduct(num, size, r_first[size] + k - 1,
                                               real_idxs, jokers)],
                                r_last[size] - r_first[size] + 1)],
                max_size - MinMeld + 1)

\* the whole set pass
SetMelds(ts, jokers, nonjokers) ==
    Flatten([num \in 1..NumRanks |-> SetsOfRank(ts, jokers, nonjokers, num)], NumRanks)

\* colors = set(t.color for t in self.tiles if t.type != 'okey')
RunColors(ts) == {ts[i].color : i \in {j \in 1..Len(ts) : ts[j].type # "okey"}}

\* the indices that num_to_idx is built from for one color
ColorIdxs(ts, color) ==
    {i \in 1..Len(ts) : ts[i].type # "okey" /\ ts[i].color = color}

\* num_to_idx: a dict comprehension in index order, so the last tile of a
\* (color, number) is the one that stays
NumToIdx(ts, color) ==
    LET own == ColorIdxs(ts, color)
    IN  [n \in {ts[i].number : i \in own} |->
            CHOOSE i \in own : ts[i].number = n /\
                \A j \in own : ts[j].number = n => j <= i]

\* if missing <= W and len(real_idxs) >= 1
RunAdmitted(missing, W, reals) == missing <= W /\ reals >= 1

\* the body of the loop over start, for one window
RunsOfWindow(num_to_idx, jokers, length, start) ==
    LET W          == Len(jokers)
        run_nums   == RangeSeq(start, start + length - 1)
        present    == FilterSeq(run_nums, DOMAIN num_to_idx)
        real_idxs  == [k \in 1..Len(present) |-> num_to_idx[present[k]]]
        missing    == length - Len(real_idxs)
    IN  IF RunAdmitted(missing, W, Len(real_idxs))
        THEN LET jcs == Combinations(jokers, missing)
             IN  [b \in 1..Len(jcs) |->
                    [idxs   |-> RunIdxs(real_idxs, jcs[b]),
                     weight |-> RunWeight(run_nums),
                     kind   |-> "run", base |-> start, size |-> length]]
        ELSE <<>>

\* a faulty variant: the last window runs one rank past 13
LastStartPastEnd(length) == NumRanks + 2 - length

\* the last start of a window of the given length: range(1, 14 - length + 1)
LastStart(length) == NumRanks + 1 - length

\* the run pass for one color
RunsOfColor(ts, jokers, color) ==
    LET num_to_idx == NumToIdx(ts, color)
    IN  Flatten([l \in 1..(NumRanks - MinMeld + 1) |->
                    LET length == MinMeld + l - 1
                    IN  Flatten([start \in 1..LastStart(length) |->
                                    RunsOfWindow(num_to_idx, jokers, length, start)],
                                LastStart(length))],
                NumRanks - MinMeld + 1)

\* _enumerate_melds, for every order in which the set colors may be iterated:
\* the set pass, then what the loop body appends for each color, in that order
EnumerateMelds(ts, jokers, nonjokers) ==
    LET sets   == SetMelds(ts, jokers, nonjokers)
        colors == SetToSeq(RunColors(ts))
        runs   == Flatten([k \in 1..Len(colors) |->
                              << RunsOfColor(ts, jokers, colors[k]) >>], Len(colors))
    IN  {sets \o Flatten([k \in 1..Len(colors) |-> runs[order[k]]], Len(colors)) :
            order \in IterationOrders(1..Len(colors))}

-----------------------------------------------------------------------------
(* OptimizationFormulator, Optimizer and ResultExtractor: OkeyILPSolver.solve *)

\* An assignment of the binary variables x_i is the set of positions i of the
\* candidate list with x_i = 1.

\* tile_idx in idxs
InIdxs(tile_idx, idxs) == \E k \in 1..Len(idxs) : idxs[k] = tile_idx

\* a faulty variant: the loop over tile indices misses the first tile
TileOnceButFirst(ms, x, tile_idx) ==
    tile_idx = 1 \/ Cardinality({i \in x : InIdxs(tile_idx, ms[i].idxs)}) <= 1

\* the constraint tile_<tile_idx>_once:
\* lpSum(x[i] for i, (idxs, _) in enumerate(melds) if tile_idx in idxs) <= 1
TileOnce(ms, x, tile_idx) ==
    Cardinality({i \in x : InIdxs(tile_idx, ms[i].idxs)}) <= 1

\* the objective: lpSum(melds[i][1] * x[i] for i in range(len(melds)))
RECURSIVE Objective(_, _)
Objective(ms, x) ==
    IF x = {} THEN 0
    ELSE LET i == CHOOSE j \in x : TRUE
         IN  ms[i].weight + Objective(ms, x \ {i})

\* the feasible assignments over the first n candidates: those over the first
\* n - 1, and each of them with x_n = 1 added when the constraints still hold
\* (there is one constraint per tile index of the hand, and only those of the
\* tiles of candidate n can change)
RECURSIVE Packings(_, _, _)
Packings(ms, ntiles, n) ==
    IF n = 0 THEN {{}}
    ELSE LET P == Packings(ms, ntiles, n - 1)
         IN  P \cup {p \cup {n} :
                       p \in {q \in P : \A tile_idx \in Range(ms[n].idxs) \cap (1..ntiles) :
                                            TileOnce(ms, q \cup {n}, tile_idx)}}

FeasibleAssignments(ms, ntiles) == Packings(ms, ntiles, Len(ms))

\* what an exact solve of the 0/1 program can end with: every feasible
\* assignment of maximum objective (ties are the solver's choice)
OptimalAssignments(ms, ntiles) ==
    LET F    == FeasibleAssignments(ms, ntiles)
        best == SetMax({Objective(ms, y) : y \in F})
    IN  {x \in F : Objective(ms, x) = best}

\* the extraction loop: candidates with value 1, in candidate order, mapped to
\* the Piece objects of their indices. idxs stands for the identity of those
\* objects (meld_pieces[k] is self.tiles[idxs[k]]).
Extract(ms, ts, x) ==
    LET chosen == SelectSeq(RangeSeq(1, Len(ms)), LAMBDA i: i \in x)
    IN  [j \in 1..Len(chosen) |->
            [idxs   |-> ms[chosen[j]].idxs,
             pieces |-> [k \in 1..Len(ms[chosen[j]].idxs) |-> ts[ms[chosen[j]].idxs[k]]],
             weight |-> ms[chosen[j]].weight]]

-----------------------------------------------------------------------------
(* The /solve handler: solve_okey_hand *)

\* the display token of a piece
PieceStr(piece) ==
    IF piece.type = "okey" THEN "JOKER"
    ELSE piece.color \o " " \o
         (IF piece.number = NoneNum THEN "None" ELSE ToString(piece.number))

\* processed_melds
ProcessedMelds(sol) ==
    [j \in 1..Len(sol) |->
        [pieces |-> [k \in 1..Len(sol[j].pieces) |-> PieceStr(sol[j].pieces[k])],
         value  |-> sol[j].weight]]

\* total_score after the loop
TotalScore(sol) == SumSeq([j \in 1..Len(sol) |-> sol[j].weight])

NoBody == [melds |-> <<>>, total_score |-> 0, can_open |-> FALSE,
           number_of_triples |-> 0, number_of_sides |-> 0]

\* the OkeyResponse of a successful request (execution_time, a wall-clock
\* reading, is left out)
OkeyResponse(sol) ==
    LET total_score == TotalScore(sol)
    IN  [kind |-> "OkeyResponse", status |-> 200,
         body |-> [melds |-> ProcessedMelds(sol),
                   total_score |-> total_score,
                   can_open |-> total_score >= OpenScore,
                   number_of_triples |-> total_score \div 3,
                   number_of_sides |-> total_score % 3]]

\* the request body is an OkeyRequest: okey_color and okey_number are required
RequestValid(oc, on) == oc # NoneStr /\ on # NoneNum

-----------------------------------------------------------------------------
(* Input spaces *)

Piece(c, n) == [color |-> c, number |-> n]

\* regular tiles of the wide input space
WideColors == {"red", "blue", "black"}
WideRanks == {1, 2, 3}
\* descriptors no valid request has: a rank above 13, an absent rank, a color
\* that is no suit
IrregularPieces == {Piece("red", 14), Piece("red", NoneNum), Piece("purple", 1)}
WidePieces ==
    {Piece(c, n) : c \in WideColors, n \in WideRanks}
        \cup {Piece("okey", NoneNum), Piece("fake_okey", NoneNum)}
\* indicators of the wide input space; the last one is a missing indicator
WideIndicators == {<<"red", 13>>, <<"blue", 12>>, <<NoneStr, NoneNum>>}

\* the narrow input space: one color at the top of the rank range, and jokers
LongPieces == {Piece("red", 11), Piece("red", 12), Piece("red", 13), Piece("okey", NoneNum)}
LongIndicators == {<<"blue", 2>>}

\* hands of at most max tiles over P with at most MaxJokers jokers
Hands(P, max) ==
    {h \in UNION {[1..n -> P] : n \in 0..max} :
        Cardinality({i \in DOMAIN h : h[i].color = "okey"}) <= MaxJokers}

-----------------------------------------------------------------------------
(* State machine: one request *)

InitWith(hands, indicators) ==
    /\ pc = "request"
    /\ pieces \in hands
    /\ \E ind \in indicators : okey_color = ind[1] /\ okey_number = ind[2]
    /\ tiles = <<>>
    /\ joker_indices = <<>>
    /\ non_joker_indices = <<>>
    /\ melds = <<>>
    /\ cbc_status = "none"
    /\ solution = <<>>
    /\ response = [kind |-> "none", status |-> 0, body |-> NoBody]

Init == InitWith(Hands(WidePieces, MaxHand), WideIndicators)

InitRaw == InitWith(Hands(WidePieces \cup IrregularPieces, MaxHand), WideIndicators)

InitLong == InitWith(Hands(LongPieces, MaxLong), LongIndicators)

InitAll == Init \/ InitLong

\* the request body fails the OkeyRequest schema: the handler never runs
Reject ==
    /\ pc = "request"
    /\ ~RequestValid(okey_color, okey_number)
    /\ response' = [kind |-> "RequestValidationError", status |-> 422, body |-> NoBody]
    /\ pc' = "done"
    /\ UNCHANGED <<pieces, okey_color, okey_number, tiles, joker_indices,
                   non_joker_indices, melds, cbc_status, solution>>

\* OkeyILPSolver.__init__
Construct ==
    /\ pc = "request"
    /\ RequestValid(okey_color, okey_number)
    /\ tiles' = BuildTiles(pieces, okey_color, okey_number)
    /\ joker_indices' = JokerIndices(tiles')
    /\ non_joker_indices' = NonJokerIndices(tiles')
    /\ pc' = "constructed"
    /\ UNCHANGED <<pieces, okey_color, okey_number, melds, cbc_status, solution, response>>

\* melds = self._enumerate_melds(), for some iteration order of the color set
Enumerate ==
    /\ pc = "constructed"
    /\ melds' \in EnumerateMelds(tiles, joker_indices, non_joker_indices)
    /\ pc' = "enumerated"
    /\ UNCHANGED <<pieces, okey_color, okey_number, tiles, joker_indices,
                   non_joker_indices, cbc_status, solution, response>>

\* the rest of solve when the optimizer ends with an optimal assignment
Optimize ==
    /\ pc = "enumerated"
    /\ \E x \in OptimalAssignments(melds, Len(tiles)) :
           solution' = Extract(melds, tiles, x)
    /\ cbc_status' = "Optimal"
    /\ pc' = "solved"
    /\ UNCHANGED <<pieces, okey_color, okey_number, tiles, joker_indices,
                   non_joker_indices, melds, response>>

\* the handler after solve returned: the response is built and sent
Respond ==
    /\ pc = "solved"
    /\ response' = OkeyResponse(solution)
    /\ pc' = "done"
    /\ UNCHANGED <<pieces, okey_color, okey_number, tiles, joker_indices,
                   non_joker_indices, melds, cbc_status, solution>>

\* the optimizer invocation raises: the handler's except clause answers 500
OptimizeRaises ==
    /\ pc = "enumerated"
    /\ cbc_status' = "Error"
    /\ response' = [kind |-> "HTTPException", status |-> 500, body |-> NoBody]
    /\ pc' = "done"
    /\ UNCHANGED <<pieces, okey_color, okey_number, tiles, joker_indices,
                   non_joker_indices, melds, solution>>

\* the optimizer invocation returns without an optimal assignment (its status,
\* the return value of prob.solve, is dropped): the variables hold whatever
\* the optimizer left, the incumbent of a cut-off search or no value at all
OptimizeNotOptimal ==
    /\ pc = "enumerated"
    /\ \E x \in FeasibleAssignments(melds, Len(tiles)) :
           solution' = Extract(melds, tiles, x)
    /\ cbc_status' = "Not Solved"
    /\ pc' = "solved"
    /\ UNCHANGED <<pieces, okey_color, okey_number, tiles, joker_indices,
                   non_joker_indices, melds, response>>

Next == Reject \/ Construct \/ Enumerate \/ Optimize \/ Respond

NextFault == Next \/ OptimizeRaises \/ OptimizeNotOptimal

\* requests of the wide input space, the optimizer being exact
Spec == Init /\ [][Next]_vars

\* requests of the wide and of the narrow input space (longer hands), the
\* optimizer being exact
SpecAll == InitAll /\ [][Next]_vars

\* requests of the wide input space and irregular descriptors
SpecRaw == InitRaw /\ [][Next]_vars

\* requests of the wide input space, the optimizer being allowed to fail
SpecFault == Init /\ [][NextFault]_vars

-----------------------------------------------------------------------------
(* Vocabulary of the properties *)

Enumerated == pc \in {"enumerated", "solved", "done"} /\ response.status # 422
Solved == pc \in {"solved", "done"} /\ cbc_status # "Error" /\ response.status # 422
Answered == pc = "done"

IsJoker(i) == tiles[i].type = "okey"
Members(m) == Range(m.idxs)
RealMembers(m) == {i \in Members(m) : ~IsJoker(i)}
JokerMembers(m) == {i \in Members(m) : IsJoker(i)}
StrictlyIncreasing(s) == \A a, b \in 1..Len(s) : a < b => s[a] < s[b]
NoRepeat(s) == \A a, b \in 1..Len(s) : s[a] = s[b] => a = b

\* the ranks of a window as a set, and their sum in closed form
Window(start, length) == start..(start + length - 1)
WindowSum(start, length) == (length * (2 * start + length - 1)) \div 2

(* The melds of the data model, as index subsets of the hand *)

\* S is a Set of rank r: 3 or 4 tiles, the non-jokers all of rank r and of
\* pairwise-distinct colors, jokers standing for absent colors
IsSetOfRank(S, r) ==
    /\ Cardinality(S) \in {3, 4}
    /\ \E i \in S : ~IsJoker(i)
    /\ \A i \in S : ~IsJoker(i) => tiles[i].number = r
    /\ \A i, j \in S : (~IsJoker(i) /\ ~IsJoker(j) /\ i # j) => tiles[i].color # tiles[j].color

\* S is a Run over the window start..start+length-1: one color, distinct
\* ranks inside the window, jokers standing for the missing ranks
IsRunOver(S, start, length) ==
    /\ Cardinality(S) = length
    /\ length \in 3..NumRanks
    /\ start >= 1 /\ start + length - 1 <= NumRanks
    /\ \E i \in S : ~IsJoker(i)
    /\ \A i \in S : ~IsJoker(i) => tiles[i].number \in Window(start, length)
    /\ \A i, j \in S : (~IsJoker(i) /\ ~IsJoker(j) /\ i # j) =>
           /\ tiles[i].color = tiles[j].color
           /\ tiles[i].number # tiles[j].number

\* the weights S can score as a meld (empty when S is no meld)
MeldWeights(S) ==
    {r * Cardinality(S) : r \in {q \in 1..NumRanks : IsSetOfRank(S, q)}}
        \cup {WindowSum(st, Cardinality(S)) :
                st \in {q \in 1..NumRanks : IsRunOver(S, q, Cardinality(S))}}

\* the maximum total weight of pairwise-disjoint melds inside avail
RECURSIVE BestPacking(_)
BestPacking(avail) ==
    IF Cardinality(avail) < MinMeld THEN 0
    ELSE LET m    == CHOOSE i \in avail : \A j \in avail : i <= j
             rest == avail \ {m}
         IN  SetMax({BestPacking(rest)} \cup
                    UNION {{w + BestPacking(rest \ S) : w \in MeldWeights(S \cup {m})} :
                              S \in {T \in SUBSET rest : Cardinality(T) >= MinMeld - 1}})

NoDuplicateTiles ==
    \A i, j \in 1..Len(tiles) :
        (i # j /\ ~IsJoker(i) /\ ~IsJoker(j)) =>
            (tiles[i].color # tiles[j].color \/ tiles[i].number # tiles[j].number)

\* the model agrees with the data model on hands without duplicate tiles
SanityOptimalWithoutDuplicates ==
    (Solved /\ NoDuplicateTiles /\ Len(joker_indices) <= 2) =>
        TotalScore(solution) = BestPacking(1..Len(tiles))

-----------------------------------------------------------------------------
(* Claims *)

\* C1 (Optimality): for every hand with at most two jokers, the sum of the
\* weights returned by solve equals the maximum total weight over all
\* collections of pairwise index-disjoint melds of the data model.
C1_Optimality ==
    (Solved /\ Len(joker_indices) <= 2) =>
        TotalScore(solution) = BestPacking(1..Len(tiles))

\* C2 (Disjointness): no tile index of the hand belongs to two distinct
\* returned melds.
C2_Disjoint ==
    Solved =>
        \A a, b \in 1..Len(solution) :
            a # b => Members(solution[a]) \cap Members(solution[b]) = {}

\* C2 witness: solve returned two melds.
C2_Witness ==
    /\ pc = "solved"
    /\ Len(solution) = 2

\* C3 (Set shape validity): every Set candidate of _enumerate_melds has size 3
\* or 4, its non-joker members share one rank and have pairwise-distinct
\* colors, also when two tiles of the hand share rank and color.
C3_SetShape ==
    Enumerated =>
        \A c \in 1..Len(melds) :
            melds[c].kind = "set" =>
                /\ Len(melds[c].idxs) \in {3, 4}
                /\ NoRepeat(melds[c].idxs)
                /\ \A i \in RealMembers(melds[c]) : tiles[i].number = melds[c].base
                /\ \A i, j \in RealMembers(melds[c]) :
                       i # j => tiles[i].color # tiles[j].color

\* C4 (Run shape validity): every Run candidate of _enumerate_melds, and so
\* every Run meld solve returns, has 3..13 members; its non-joker members
\* (fake jokers at their resolved color and rank) share one color and have
\* pairwise-distinct ranks inside one window start..start+length-1 within
\* 1..13; and it has as many jokers as the window has ranks without a tile.
RunShape(m) ==
    /\ Len(m.idxs) = m.size
    /\ NoRepeat(m.idxs)
    /\ m.size \in 3..13
    /\ 1 <= m.base /\ m.base + m.size - 1 <= 13
    /\ \A i \in RealMembers(m) : tiles[i].number \in Window(m.base, m.size)
    /\ \A i, j \in RealMembers(m) :
           i # j => /\ tiles[i].color = tiles[j].color
                    /\ tiles[i].number # tiles[j].number
    /\ Cardinality(JokerMembers(m)) =
           Cardinality({n \in Window(m.base, m.size) :
                           \A i \in RealMembers(m) : tiles[i].number # n})

\* a returned meld is one of the candidates, with that candidate's tiles
Returned(s) ==
    \E c \in 1..Len(melds) :
        /\ melds[c].idxs = s.idxs
        /\ melds[c].weight = s.weight
        /\ s.pieces = [k \in 1..Len(s.idxs) |-> tiles[s.idxs[k]]]

C4_RunShape ==
    /\ pc = "enumerated" =>
           \A c \in 1..Len(melds) : melds[c].kind = "run" => RunShape(melds[c])
    /\ Solved => \A a \in 1..Len(solution) : Returned(solution[a])

\* C4 witness: solve returned a run that holds a fake joker and a joker.
C4_Witness ==
    /\ pc = "solved"
    /\ \E a \in 1..Len(solution) : \E c \in 1..Len(melds) :
           /\ melds[c].kind = "run"
           /\ melds[c].idxs = solution[a].idxs
           /\ \E i \in Members(melds[c]) : tiles[i].type = "fake_okey"
           /\ \E i \in Members(melds[c]) : tiles[i].type = "okey"

\* irregular descriptors of a request
BadRank(p) == p.color \notin {"okey", "fake_okey"} /\ p.number \notin 1..13
BadColor(p) == p.color \notin Colors \cup {"okey", "fake_okey"}
JokerWithoutIndicator(p) ==
    p.color \in {"okey", "fake_okey"} /\ ~RequestValid(okey_color, okey_number)
MalformedRequest ==
    \E i \in 1..Len(pieces) :
        BadRank(pieces[i]) \/ BadColor(pieces[i]) \/ JokerWithoutIndicator(pieces[i])

\* C5 (Validation failure): a request with a rank outside 1..13 or absent, an
\* unrecognized color, or a joker without indicator ends in a validation
\* failure before enumeration or solving; no meld list is returned for it.
C5_ValidationFailure ==
    MalformedRequest =>
        /\ pc \in {"request", "done"}
        /\ pc = "done" => response.kind = "RequestValidationError"

\* C6 (Solver failure): when the optimizer does not end with an optimal
\* assignment, solve returns no meld list and the request ends in a failure
\* that is neither success nor validation failure.
C6_SolverFailure ==
    cbc_status \notin {"none", "Optimal"} =>
        /\ pc = "done"
        /\ solution = <<>>
        /\ response.kind = "HTTPException"

\* C7 (Order within a meld): the tiles of every returned meld are listed in
\* strictly increasing order of their hand index.
C7_IndexOrder ==
    Solved => \A a \in 1..Len(solution) : StrictlyIncreasing(solution[a].idxs)

\* C8 (Tile resolution): for an indicator (c, n) with n in 1..13 the hand has
\* the length and order of the input; a normal descriptor keeps color and
\* rank, a joker marker becomes (c, n), a fake-joker marker becomes
\* (c, (n mod 13) + 1), which wraps 13 to 1 and stays in 1..13.
C8_TileResolution ==
    (pc # "request" /\ RequestValid(okey_color, okey_number) /\ okey_number \in 1..13) =>
        /\ Len(tiles) = Len(pieces)
        /\ \A i \in 1..Len(pieces) :
               IF pieces[i].color = "okey"
               THEN tiles[i] = [type |-> "okey", color |-> okey_color,
                                number |-> okey_number]
               ELSE IF pieces[i].color = "fake_okey"
               THEN /\ tiles[i].type = "fake_okey"
                    /\ tiles[i].color = okey_color
                    /\ tiles[i].number =
                           (IF okey_number = 13 THEN 1 ELSE okey_number + 1)
                    /\ tiles[i].number \in 1..13
               ELSE tiles[i] = [type |-> "piece", color |-> pieces[i].color,
                                number |-> pieces[i].number]
        /\ joker_indices = SelectSeq(RangeSeq(1, Len(pieces)),
                                     LAMBDA i: pieces[i].color = "okey")

\* C8 witness: a hand with a normal tile, a joker and a fake joker was built
\* under an indicator of rank 13.
C8_Witness ==
    /\ pc = "constructed"
    /\ okey_number = 13
    /\ \E i, j, k \in 1..Len(tiles) :
           /\ pieces[i].color = "fake_okey" /\ tiles[i].number = 1
           /\ pieces[j].color = "okey"
           /\ pieces[k].color \in Colors

\* three tiles of pairwise different ranks and colors, none a joker
ThreeUnrelated ==
    /\ Len(tiles) = 3
    /\ \A i \in 1..3 : ~IsJoker(i)
    /\ \A i, j \in 1..3 :
           i # j => (tiles[i].color # tiles[j].color /\ tiles[i].number # tiles[j].number)

\* C9 (Empty result is not an error): when _enumerate_melds produces no
\* candidate (as for the empty hand and for three unrelated tiles), solve
\* returns the empty list and the request succeeds with total score 0.
C9_EmptyResult ==
    /\ (Enumerated /\ (Len(tiles) = 0 \/ ThreeUnrelated)) => melds = <<>>
    /\ (pc = "enumerated" /\ melds = <<>>) =>
           OptimalAssignments(melds, Len(tiles)) = {{}}
    /\ (Solved /\ melds = <<>>) => solution = <<>>
    /\ (Answered /\ response.status # 422 /\ melds = <<>>) =>
           /\ response.kind = "OkeyResponse"
           /\ response.body.melds = <<>>
           /\ response.body.total_score = 0

\* C9 witness: a request with three unrelated tiles was answered.
C9_Witness ==
    /\ Answered
    /\ response.kind = "OkeyResponse"
    /\ ThreeUnrelated
    /\ melds = <<>>

\* candidates that differ at most in which jokers fill the slots
SameButJokers(m1, m2) ==
    /\ m1.kind = m2.kind /\ m1.base = m2.base /\ m1.size = m2.size
    /\ RealMembers(m1) = RealMembers(m2)

\* C10 (Candidate weights): a Set candidate of rank r and size s weighs r x s,
\* a Run candidate weighs the sum of the ranks of its window, and candidates
\* that differ only in their joker indices weigh the same.
C10_Weights ==
    pc = "enumerated" =>
        /\ \A c \in 1..Len(melds) :
               /\ melds[c].kind = "set" =>
                      /\ melds[c].size = Len(melds[c].idxs)
                      /\ \A i \in RealMembers(melds[c]) :
                             melds[c].weight = tiles[i].number * Len(melds[c].idxs)
               /\ melds[c].kind = "run" =>
                      melds[c].weight = WindowSum(melds[c].base, Len(melds[c].idxs))
        /\ \A c, d \in 1..Len(melds) :
               SameButJokers(melds[c], melds[d]) => melds[c].weight = melds[d].weight

\* C10 witness: the candidate list holds a set with a joker, a run with a
\* joker, and two candidates that differ only in the joker used.
C10_Witness ==
    /\ pc = "enumerated"
    /\ \E c \in 1..Len(melds) : melds[c].kind = "set" /\ JokerMembers(melds[c]) # {}
    /\ \E c \in 1..Len(melds) : melds[c].kind = "run" /\ JokerMembers(melds[c]) # {}
    /\ \E c, d \in 1..Len(melds) :
           /\ SameButJokers(melds[c], melds[d])
           /\ JokerMembers(melds[c]) # JokerMembers(melds[d])

====
